---- MODULE Spec2Model ----
(***************************************************************************)
(* r7scad: a builder of OpenSCAD scene graphs (scad/core.py,               *)
(* scad/operators.py, scad/primitives.py) and the serializer that turns    *)
(* the frozen Command tree into lines of text (scad/scad.py).              *)
(*                                                                         *)
(* Python values are tagged records, text is a TLA+ string, a list of     *)
(* lines is a sequence of strings.  A call either returns or raises:       *)
(* Return(x) = [returned |-> x], Raise(e) = [raised |-> e].                *)
(***************************************************************************)
EXTENDS Integers, Sequences, FiniteSets, TLC

----------------------------------------------------------------------------
(* Python values that can be handed over as command arguments.             *)

PyNone == [t |-> "NoneType"]
PyBool(b) == [t |-> "bool", v |-> b]
PyInt(n) == [t |-> "int", v |-> n]
PyStr(s) == [t |-> "str", v |-> s]
PyTuple(items) == [t |-> "tuple", v |-> items]
PyList(items) == [t |-> "list", v |-> items]
\* An empty dict: a value of a type format_value has no branch for.
PyDict == [t |-> "dict"]

Return(x) == [returned |-> x]
Raise(e) == [raised |-> e]
Raised(r) == "raised" \in DOMAIN r

\* str.join
RECURSIVE Join(_, _)
Join(sep, strs) ==
    IF Len(strs) = 0 THEN ""
    ELSE IF Len(strs) = 1 THEN strs[1]
    ELSE strs[1] \o sep \o Join(sep, Tail(strs))

\* Python's repr() and str() of a value; str() differs from repr() for a
\* string only (repr quotes it).
RECURSIVE PyRepr(_)
PyRepr(value) ==
    CASE value.t = "NoneType" -> "None"
      [] value.t = "bool" -> IF value.v THEN "True" ELSE "False"
      [] value.t = "int" -> ToString(value.v)
      [] value.t = "str" -> "'" \o value.v \o "'"
      [] value.t = "tuple" ->
            IF Len(value.v) = 1 THEN "(" \o PyRepr(value.v[1]) \o ",)"
            ELSE "(" \o Join(", ", [i \in 1..Len(value.v) |-> PyRepr(value.v[i])]) \o ")"
      [] value.t = "list" ->
            "[" \o Join(", ", [i \in 1..Len(value.v) |-> PyRepr(value.v[i])]) \o "]"
      [] value.t = "dict" -> "{}"

str(value) == IF value.t = "str" THEN value.v ELSE PyRepr(value)

\* scad.py format_value: the elements of a list or tuple go through str(),
\* not through format_value.
format_value(value) ==
    IF value.t = "bool" THEN Return(IF value.v THEN "true" ELSE "false")
    ELSE IF value.t = "int" THEN Return(str(value))
    ELSE IF value.t \in {"list", "tuple"}
        THEN Return("[" \o Join(", ", [i \in 1..Len(value.v) |-> str(value.v[i])]) \o "]")
    ELSE IF value.t = "str" THEN Return("\"" \o value.v \o "\"")
    ELSE Raise("ValueError")

\* scad.py format_argument.  An argument is a pair <<name, value>>.
format_argument(name, value) ==
    LET formatted == format_value(value)
    IN  IF Raised(formatted) THEN formatted
        ELSE Return(name \o "=" \o formatted.returned)

\* SelectSeq with the order kept: the `if value is not None` of the generator.
NotNoneArguments(arguments) == SelectSeq(arguments, LAMBDA a : a[2] # PyNone)

\* scad.py format_command_arguments.  `arguments` is the dict in insertion
\* order, a sequence of <<name, value>>.
format_command_arguments(arguments) ==
    LET kept == NotNoneArguments(arguments)
        parts == [i \in 1..Len(kept) |-> format_argument(kept[i][1], kept[i][2])]
    IN  IF \E i \in 1..Len(parts) : Raised(parts[i]) THEN Raise("ValueError")
        ELSE Return(Join(", ", [i \in 1..Len(parts) |-> parts[i].returned]))

Spaces(n) == Join("", [i \in 1..n |-> " "])

\* indent with half the indentation asked for.
indent_half(indentation, line) == Spaces(indentation \div 2) \o line

indent(indentation, line) == Spaces(indentation) \o line

debug_commands == {"%", "#", "|", "*"}

\* The collapsing names with hull forgotten.
commands_to_skip_without_hull == {"union", "difference", "intersection", "minkowski"}

commands_to_skip_if_less_than_two_children ==
    {"union", "difference", "intersection", "minkowski", "hull"}

\* The no-op-if-empty names with render forgotten.
commands_to_skip_without_render ==
    commands_to_skip_if_less_than_two_children \cup debug_commands

commands_to_skip_if_no_children ==
    commands_to_skip_if_less_than_two_children \cup debug_commands \cup {"render"}

----------------------------------------------------------------------------
(* The frozen node tree.                                                   *)

Command(name, arguments, children) ==
    [type |-> "Command", name |-> name, arguments |-> arguments, children |-> children]

Commented(text, child) == [type |-> "Commented", text |-> text, child |-> child]

\* The header of a command: the bare name for the four markers.
Header(command) ==
    IF command.name \in debug_commands THEN Return(command.name)
    ELSE LET args == format_command_arguments(command.arguments)
         IN  IF Raised(args) THEN args
             ELSE Return(command.name \o "(" \o args.returned \o ")")

\* lines.extend(indent(4, line) for line in child.to_scad())
IndentAll(lines) == [i \in 1..Len(lines) |-> indent(4, lines[i])]

RECURSIVE Flatten(_)
Flatten(seqs) == IF Len(seqs) = 0 THEN <<>> ELSE Head(seqs) \o Flatten(Tail(seqs))

\* The lines of a comment node: the comment, then the child's lines at the
\* same indentation.
CommentedToScad(text, childLines) == <<text>> \o childLines

\* Command.to_scad with the single-child collapse forgotten: one child is
\* always preceded by the header.
CommandLines_no_collapse(name, header, childLines) ==
    IF Len(childLines) = 0
        THEN IF name \in commands_to_skip_if_no_children THEN <<>>
             ELSE <<header \o ";">>
    ELSE IF Len(childLines) = 1
        THEN <<header>> \o childLines[1]
    ELSE <<header \o " {">>
            \o Flatten([i \in 1..Len(childLines) |-> IndentAll(childLines[i])])
            \o <<"}">>

\* The three branches of Command.to_scad on the number of children, given
\* the header and the children's lines.
CommandLines(name, header, childLines) ==
    IF Len(childLines) = 0
        THEN IF name \in commands_to_skip_if_no_children THEN <<>>
             ELSE <<header \o ";">>
    ELSE IF Len(childLines) = 1
        THEN (IF name \in commands_to_skip_if_less_than_two_children THEN <<>>
              ELSE <<header>>) \o childLines[1]
    ELSE <<header \o " {">>
            \o Flatten([i \in 1..Len(childLines) |-> IndentAll(childLines[i])])
            \o <<"}">>

\* Module.to_scad: Command.to_scad, and the comment node's (whose class is
\* imported from scad.py by core.py but is not in the file; it follows the
\* specification: the comment, then the child's lines, nothing collapsed).
RECURSIVE to_scad(_)
to_scad(node) ==
    IF node.type = "Commented"
        THEN LET child == to_scad(node.child)
             IN  IF Raised(child) THEN child
                 ELSE Return(CommentedToScad(node.text, child.returned))
    ELSE LET header == Header(node)
             kids == [i \in 1..Len(node.children) |-> to_scad(node.children[i])]
         IN  IF Raised(header) THEN header
             ELSE IF \E i \in 1..Len(kids) : Raised(kids[i]) THEN Raise("ValueError")
             ELSE Return(CommandLines(node.name, header.returned,
                                      [i \in 1..Len(kids) |-> kids[i].returned]))

----------------------------------------------------------------------------
(* The builder objects of scad/core.py, scad/operators.py and              *)
(* scad/primitives.py.  A name is a Python value: PyStr(..) or PyNone.     *)

\* core.py SimpleModule.__init__
SimpleModule(name, arguments, children) ==
    [kind |-> "SimpleModule", name |-> name, arguments |-> arguments,
     children |-> children]

\* core.py NamedWrapper.__init__: hidden_names None becomes the empty {}.
NamedWrapper(child, object_name, hidden_names) ==
    [kind |-> "NamedWrapper", child |-> child, object_name |-> object_name,
     hidden_names |-> hidden_names]

\* core.py CommentedWrapper.__init__
CommentedWrapper(child, comment) ==
    [kind |-> "CommentedWrapper", child |-> child, comment |-> comment]

\* core.py Translation.__init__ (the matrix comes from pytransform3d and is
\* not read by to_command).
Translation(child, vector) ==
    [kind |-> "Translation", child |-> child, vector |-> vector]

\* core.py Rotation.__init__.  The matrix is made by pytransform3d from the
\* axis and the angle, or from the three Euler angles; only which of the
\* two made it is kept.  With a scalar angle and no axis neither branch
\* assigns rotation_matrix, and reading it raises UnboundLocalError.
Rotation(child, angle, rotation_axis) ==
    LET built(matrix) ==
            Return([kind |-> "Rotation", child |-> child, matrix |-> matrix,
                    angle_deg |-> angle, axis |-> rotation_axis])
    IN  IF rotation_axis # PyNone
            THEN IF angle.t = "tuple" THEN Raise("ValueError")
                 ELSE built("matrix_from_axis_angle")
        ELSE IF angle.t = "tuple" THEN built("active_matrix_from_angle")
        ELSE Raise("UnboundLocalError")

\* operators.py Hull.__init__
Hull(objects) == [kind |-> "Hull", objects |-> objects]

\* operators.py Minkowski.__init__
Minkowski(objects) == [kind |-> "Minkowski", objects |-> objects]

\* operators.py IDUObject.__init__
IDUObject(positive_objects, negative_objects, intersection_objects) ==
    [kind |-> "IDUObject", positive_objects |-> positive_objects,
     negative_objects |-> negative_objects,
     intersection_objects |-> intersection_objects]

\* primitives.py cube
cube(size, center) ==
    SimpleModule("cube",
                 <<      <<"size", PyTuple(<<PyInt(size), PyInt(size), PyInt(size)>>)>>,
                         <<"center", PyBool(center)>> >>,
                 <<>>)

\* primitives.py sphere, with fa, fs and fn left at None
sphere(radius) ==
    SimpleModule("sphere",
                 << <<"r", PyInt(radius)>>, <<"$fa", PyNone>>, <<"$fs", PyNone>>,
                    <<"$fn", PyNone>> >>,
                 <<>>)

\* core.py ScadObject.named / with_hidden_descendants / translated
\* (names are handed over as TLA+ strings and kept as PyStr values)
named(self, name, hidden_names) ==
    NamedWrapper(self, PyStr(name), {PyStr(h) : h \in hidden_names})
with_hidden_descendants(self, hidden_names) ==
    NamedWrapper(self, PyNone, {PyStr(h) : h \in hidden_names})
translated(self, vector) == Translation(self, vector)

\* iter_children of every builder class
iter_children(self) ==
    CASE self.kind = "SimpleModule" -> self.children
      [] self.kind \in {"NamedWrapper", "CommentedWrapper", "Translation", "Rotation"} ->
            <<self.child>>
      [] self.kind \in {"Hull", "Minkowski"} -> self.objects
      [] self.kind = "IDUObject" ->
            self.positive_objects \o self.negative_objects \o self.intersection_objects

\* IDUObject.to_command with the union appended after the negative objects
\* instead of inserted before them.
IDUCommand_union_last(union_children, negative_children, intersect_children) ==
    LET union == Command("union", <<>>, union_children)
        difference == Command("difference", <<>>, negative_children \o <<union>>)
    IN  Command("intersection", <<>>, <<difference>> \o intersect_children)

\* operators.py IDUObject.to_command, given the children's commands: the
\* union is inserted at the head of the negatives, the difference at the
\* head of the intersection objects.
IDUCommand(union_children, negative_children, intersect_children) ==
    LET union == Command("union", <<>>, union_children)
        difference_children == <<union>> \o negative_children
        difference == Command("difference", <<>>, difference_children)
        intersection_children == <<difference>> \o intersect_children
    IN  Command("intersection", <<>>, intersection_children)

\* to_command of every builder class
RECURSIVE to_command(_)
to_command(self) ==
    LET each(objects) == [i \in 1..Len(objects) |-> to_command(objects[i])]
    IN  CASE self.kind = "SimpleModule" ->
                Command(self.name, self.arguments, each(self.children))
          [] self.kind = "NamedWrapper" ->
                IF self.object_name # PyNone
                    THEN Commented(self.object_name.v, to_command(self.child))
                    ELSE to_command(self.child)
          [] self.kind = "CommentedWrapper" ->
                Commented(self.comment, to_command(self.child))
          [] self.kind = "Translation" ->
                Command("translate", << <<"v", self.vector>> >>, <<to_command(self.child)>>)
          [] self.kind = "Rotation" ->
                Command("rotate", << <<"a", self.angle_deg>>, <<"v", self.axis>> >>,
                        <<to_command(self.child)>>)
          [] self.kind = "Hull" -> Command("hull", <<>>, each(self.objects))
          [] self.kind = "Minkowski" -> Command("minkowski", <<>>, each(self.objects))
          [] self.kind = "IDUObject" ->
                IDUCommand(each(self.positive_objects), each(self.negative_objects),
                           each(self.intersection_objects))

----------------------------------------------------------------------------
(* Name lookup.  A found object is identified by its path from the object  *)
(* the search started at: the indices into iter_children, in order.        *)

RECURSIVE search(_, _, _)

\* core.py ScadObject.search: the matches of all children, in child order.
ScadObject_search(self, name_parts, path) ==
    Flatten([i \in 1..Len(iter_children(self)) |->
                search(iter_children(self)[i], name_parts, Append(path, i))])

\* core.py NamedWrapper.search; name_parts is not empty.
NamedWrapper_search(self, name_parts, path) ==
    LET matched == name_parts[1] = self.object_name
        rest == IF matched THEN Tail(name_parts) ELSE name_parts
    IN  IF matched /\ Len(rest) = 0 THEN <<path>>
        ELSE IF rest[1] \in self.hidden_names THEN <<>>
        ELSE ScadObject_search(self, rest, path)

\* search, dispatched on the class
search(self, name_parts, path) ==
    IF self.kind = "NamedWrapper" THEN NamedWrapper_search(self, name_parts, path)
    ELSE ScadObject_search(self, name_parts, path)

NotFound == Raise("KeyError: name")
AmbiguousMatch == Raise("KeyError: Found multiple descendants with the name")

\* __item__ that hands back the first match whenever there is one.
item_first_match(children) ==
    IF Len(children) >= 1 THEN Return(children[1]) ELSE NotFound

\* core.py ScadObject.__item__, from the list search returned.
item(children) ==
    IF Len(children) = 1 THEN Return(children[1])
    ELSE IF Len(children) = 0 THEN NotFound
    ELSE AmbiguousMatch

\* The tuple of names as search gets it.
NameParts(name) == [i \in 1..Len(name) |-> PyStr(name[i])]

----------------------------------------------------------------------------
(* State.                                                                  *)

VARIABLES
    \* an IDUObject under construction: its three lists, the lists its
    \* constructor was given and the calls made on it since, in order
    positive_objects, negative_objects, intersection_objects,
    constructor_lists, calls,
    \* a Command tree and what to_scad made of it
    command, lines,
    \* a Python value and what format_value made of it
    value, text,
    \* a builder tree, the name last looked up in it (a tuple of names),
    \* what search returned for it and what __item__ made of that
    root, name, matches, found,
    \* the arguments of a rotation of root and what its construction gave
    angle_deg, axis, rotation,
    \* the builder objects made so far, each holding its children by
    \* reference (the position of the child in heap), and what the last
    \* to_command call on one of them gave
    heap, frozen

iduVars == <<positive_objects, negative_objects, intersection_objects,
             constructor_lists, calls>>
scadVars == <<command, lines>>
valueVars == <<value, text>>

searchVars == <<root, name, matches, found>>

rotationVars == <<angle_deg, axis, rotation>>

heapVars == <<heap, frozen>>

vars == <<iduVars, scadVars, valueVars, searchVars, rotationVars, heapVars>>

\* The variables a specification does not use stay at these values.
IdleIDU ==
    /\ positive_objects = <<>> /\ negative_objects = <<>> /\ intersection_objects = <<>>
    /\ constructor_lists = <<<<>>, <<>>, <<>>>> /\ calls = <<>>
IdleScad == command = Command("union", <<>>, <<>>) /\ lines = Return(<<>>)
IdleValue == value = PyNone /\ text = Raise("ValueError")
NoLookup == [pending |-> TRUE]
IdleSearch ==
    root = cube(1, FALSE) /\ name = <<>> /\ matches = <<>> /\ found = NoLookup
NotConstructed == [pending |-> TRUE]
IdleRotation == angle_deg = PyInt(0) /\ axis = PyNone /\ rotation = NotConstructed
NotFrozen == [pending |-> TRUE]
IdleHeap == heap = <<>> /\ frozen = NotFrozen

----------------------------------------------------------------------------
(* Spec: an IDUObject is constructed and then grown by add_positive,       *)
(* add_negative and intersect in any order (main.py does the same with     *)
(* +=, -= and *=).                                                         *)

\* The most objects the three lists hold together.
MaxObjects == 3

\* The objects handed to the IDUObject: three childless primitives and a
\* named, translated one.
Objects ==
    { cube(1, FALSE), cube(2, FALSE), sphere(7),
      named(translated(sphere(7), PyTuple(<<PyInt(0), PyInt(0), PyInt(1)>>)), "ball", {}) }

RECURSIVE SeqsUpTo(_, _)
SeqsUpTo(S, n) ==
    IF n = 0 THEN {<<>>}
    ELSE LET shorter == SeqsUpTo(S, n - 1)
         IN  shorter \cup {Append(q, e) : q \in shorter, e \in S}

Self == IDUObject(positive_objects, negative_objects, intersection_objects)

Size == Len(positive_objects) + Len(negative_objects) + Len(intersection_objects)

InitIDU ==
    /\ constructor_lists \in
          {l \in SeqsUpTo(Objects, MaxObjects) \X SeqsUpTo(Objects, MaxObjects)
                    \X SeqsUpTo(Objects, MaxObjects) :
              Len(l[1]) + Len(l[2]) + Len(l[3]) <= MaxObjects}
    /\ positive_objects = constructor_lists[1]
    /\ negative_objects = constructor_lists[2]
    /\ intersection_objects = constructor_lists[3]
    /\ calls = <<>>

\* operators.py IDUObject.add_positive (and __iadd__)
add_positive(scad_object) ==
    /\ Size < MaxObjects
    /\ positive_objects' = Append(positive_objects, scad_object)
    /\ calls' = Append(calls, <<"add_positive", scad_object>>)
    /\ UNCHANGED <<negative_objects, intersection_objects, constructor_lists>>
    /\ UNCHANGED <<scadVars, valueVars, searchVars, rotationVars, heapVars>>

\* operators.py IDUObject.add_negative (and __isub__)
add_negative(scad_object) ==
    /\ Size < MaxObjects
    /\ negative_objects' = Append(negative_objects, scad_object)
    /\ calls' = Append(calls, <<"add_negative", scad_object>>)
    /\ UNCHANGED <<positive_objects, intersection_objects, constructor_lists>>
    /\ UNCHANGED <<scadVars, valueVars, searchVars, rotationVars, heapVars>>

\* operators.py IDUObject.intersect (and __imul__)
intersect(scad_object) ==
    /\ Size < MaxObjects
    /\ intersection_objects' = Append(intersection_objects, scad_object)
    /\ calls' = Append(calls, <<"intersect", scad_object>>)
    /\ UNCHANGED <<positive_objects, negative_objects, constructor_lists>>
    /\ UNCHANGED <<scadVars, valueVars, searchVars, rotationVars, heapVars>>

Init == InitIDU /\ IdleScad /\ IdleValue /\ IdleSearch /\ IdleRotation /\ IdleHeap

Next ==
    \/ \E o \in Objects : add_positive(o)
    \/ \E o \in Objects : add_negative(o)
    \/ \E o \in Objects : intersect(o)

Spec == Init /\ [][Next]_vars

----------------------------------------------------------------------------
(* SpecScad: Command trees are put together bottom-up and serialized.      *)
(* Every argument is a Value of the serializer (or None).                  *)

\* The most levels of children below the root of the tree.
MaxDepth == 2

Max(a, b) == IF a >= b THEN a ELSE b

RECURSIVE MaxOf(_)
MaxOf(ns) == IF Len(ns) = 0 THEN 0 ELSE Max(Head(ns), MaxOf(Tail(ns)))

RECURSIVE Depth(_)
Depth(node) ==
    IF node.type = "Commented" THEN 1 + Depth(node.child)
    ELSE IF Len(node.children) = 0 THEN 0
    ELSE 1 + MaxOf([i \in 1..Len(node.children) |-> Depth(node.children[i])])

Vector001 == PyTuple(<<PyInt(0), PyInt(0), PyInt(1)>>)

\* Name and arguments of the commands the builder layer makes: the five
\* aggregating names and the four markers without arguments, render with
\* and without convexity, translate, color.
Modules ==
    {<<n, <<>>>> : n \in {"union", "difference", "intersection", "minkowski", "hull",
                          "%", "#", "|", "*"}}
    \cup { <<"render", << <<"convexity", PyInt(10)>> >> >>,
           <<"render", << <<"convexity", PyNone>> >> >>,
           <<"translate", << <<"v", Vector001>> >> >>,
           <<"color", << <<"c", PyStr("green")>>, <<"alpha", PyNone>> >> >> }

\* The commands that get a parent in turn; the others of Modules are tried
\* at the root of the tree only.
InnerModules == { <<"union", <<>>>>, <<"%", <<>>>>, <<"translate", << <<"v", Vector001>> >> >> }

Extensible(node) ==
    IF node.type = "Commented" THEN TRUE
    ELSE IF Len(node.children) = 0 THEN TRUE
    ELSE <<node.name, node.arguments>> \in InnerModules

Cube1 == to_command(cube(1, FALSE))
Cube2 == to_command(cube(2, FALSE))
EmptyUnion == Command("union", <<>>, <<>>)
HullOfTwo == Command("hull", <<>>, <<Cube1, Cube2>>)

Leaves == {Cube1, to_command(sphere(7)), EmptyUnion,
           Command("render", << <<"convexity", PyInt(10)>> >>, <<>>)}

\* The children a new parent gets around the tree built so far.
Siblings(c) == { <<c>>, <<c, Cube2>>, <<HullOfTwo, EmptyUnion, c>> }

InitScad ==
    /\ command \in Leaves
    /\ lines = to_scad(command)
    /\ IdleIDU /\ IdleValue /\ IdleSearch /\ IdleRotation /\ IdleHeap

\* Command(name, arguments, children).to_scad()
Nest(module, children) ==
    /\ Depth(command) < MaxDepth
    /\ Extensible(command)
    /\ command' = Command(module[1], module[2], children)
    /\ lines' = to_scad(command')
    /\ UNCHANGED <<iduVars, valueVars, searchVars, rotationVars, heapVars>>

\* Commented(text, child).to_scad()
Comment(comment) ==
    /\ Depth(command) < MaxDepth
    /\ Extensible(command)
    /\ command' = Commented(comment, command)
    /\ lines' = to_scad(command')
    /\ UNCHANGED <<iduVars, valueVars, searchVars, rotationVars, heapVars>>

NextScad ==
    \/ \E m \in Modules : \E cs \in Siblings(command) : Nest(m, cs)
    \/ Comment("// note")

SpecScad == InitScad /\ [][NextScad]_vars

----------------------------------------------------------------------------
(* SpecValue: a Python value is put together bottom-up, formatted, and     *)
(* serialized as the argument of a command without children.  The value    *)
(* may be of any type: SimpleModule and Command take Dict[str, Any].       *)

\* The most levels of sequences around an atom.
MaxNesting == 2

Atoms == {PyBool(TRUE), PyBool(FALSE), PyInt(1), PyStr("green"), PyNone, PyDict}

RECURSIVE Nesting(_)
Nesting(v) ==
    IF v.t \in {"list", "tuple"}
        THEN 1 + MaxOf([i \in 1..Len(v.v) |-> Nesting(v.v[i])])
        ELSE 0

\* Every command name the serializer tells apart, and three it does not.
CommandNames ==
    {"union", "difference", "intersection", "minkowski", "hull",
     "%", "#", "|", "*", "render", "cube", "translate", "multmatrix"}

\* The argument dicts tried: empty, the value alone, the value and a number.
ArgumentLayouts == {0, 1, 2}
Arguments(layout, v) ==
    CASE layout = 0 -> <<>>
      [] layout = 1 -> << <<"v", v>> >>
      [] layout = 2 -> << <<"v", v>>, <<"n", PyInt(2)>> >>

InitValue ==
    /\ value \in Atoms
    /\ text = format_value(value)
    /\ \E n \in CommandNames : \E layout \in ArgumentLayouts :
          command = Command(n, Arguments(layout, value), <<>>)
    /\ lines = to_scad(command)
    /\ IdleIDU /\ IdleSearch /\ IdleRotation /\ IdleHeap

\* format_value(v), then Command(name, {...: v}, []).to_scad()
Serialize(v) ==
    /\ value' = v
    /\ text' = format_value(v)
    /\ command' = Command(command.name, Arguments(Len(command.arguments), v), <<>>)
    /\ lines' = to_scad(command')
    /\ UNCHANGED <<iduVars, searchVars, rotationVars, heapVars>>

\* The value becomes the element of a new tuple.
InTuple(items) == Nesting(value) < MaxNesting /\ Serialize(PyTuple(items))

\* The value becomes the element of a new list.
InList(items) == Nesting(value) < MaxNesting /\ Serialize(PyList(items))

\* The elements a new sequence gets around the value built so far.
Elements(v) == { <<v>>, <<v, PyBool(TRUE)>>, <<PyInt(2), v, v>> }

NextValue ==
    \/ \E items \in Elements(value) : InTuple(items)
    \/ \E items \in Elements(value) : InList(items)

SpecValue == InitValue /\ [][NextValue]_vars

----------------------------------------------------------------------------
(* SpecSearch: a builder tree grows by wrapping -- named, with hidden      *)
(* names, translated, put into a Hull beside another object -- and names   *)
(* are looked up in it.                                                    *)

\* The most wrappers around the primitive at the bottom of the tree.
MaxWrappers == 3

Names == {"A", "B"}
HiddenSets == {{}, {"B"}}

\* The names looked up: every single name and every pair.
Queries == {<<n>> : n \in Names} \cup {<<n, m>> : n \in Names, m \in Names}

RECURSIVE Wrappers(_)
Wrappers(o) ==
    IF Len(iter_children(o)) = 0 THEN 0
    ELSE 1 + MaxOf([i \in 1..Len(iter_children(o)) |-> Wrappers(iter_children(o)[i])])

InitSearch ==
    /\ root = cube(1, FALSE)
    /\ name = <<>>
    /\ matches = <<>>
    /\ found = NoLookup
    /\ IdleIDU /\ IdleScad /\ IdleValue /\ IdleRotation /\ IdleHeap

\* Any change of the tree: the last lookup is forgotten.
Grow(object) ==
    /\ Wrappers(root) < MaxWrappers
    /\ root' = object
    /\ name' = <<>>
    /\ matches' = <<>>
    /\ found' = NoLookup
    /\ UNCHANGED <<iduVars, scadVars, valueVars, rotationVars, heapVars>>

\* root.named(n, hidden)
Named(n, hidden) == Grow(named(root, n, hidden))

\* root.with_hidden_descendants(hidden)
Hide(hidden) == Grow(with_hidden_descendants(root, hidden))

\* root.translated((0, 0, 1))
Translated == Grow(translated(root, Vector001))

\* Hull([root, other])
InHull(other) == Grow(Hull(<<root, other>>))

\* root.__item__(n)
Lookup(n) ==
    /\ name' = n
    /\ matches' = search(root, NameParts(n), <<>>)
    /\ found' = item(matches')
    /\ root' = root
    /\ UNCHANGED <<iduVars, scadVars, valueVars, rotationVars, heapVars>>

NextSearch ==
    \/ \E n \in Names : \E h \in HiddenSets : Named(n, h)
    \/ Hide({"B"})
    \/ Translated
    \/ \E other \in {root, named(cube(2, FALSE), "A", {})} : InHull(other)
    \/ \E n \in Queries : Lookup(n)

SpecSearch == InitSearch /\ [][NextSearch]_vars

----------------------------------------------------------------------------
(* SpecRotation: an object is rotated (ScadObject.rotated), the rotation   *)
(* is frozen into a command and serialized.                                *)

Vector(x, y, z) == PyTuple(<<PyInt(x), PyInt(y), PyInt(z)>>)

\* angle_deg: Vector3 | float
Angles == {PyInt(0), PyInt(45), PyInt(-90),
           Vector(0, 0, 0), Vector(-45, 0, 0), Vector(90, 0, 45)}

\* axis: Vector3 = None
Axes == {PyNone, Vector(0, 0, 1), Vector(1, 0, 0), Vector(1, 1, 0)}

RotatedObjects ==
    {cube(1, FALSE), sphere(7), named(cube(2, FALSE), "A", {})}

InitRotation ==
    /\ root \in RotatedObjects
    /\ angle_deg \in Angles
    /\ axis \in Axes
    /\ rotation = NotConstructed
    /\ name = <<>> /\ matches = <<>> /\ found = NoLookup
    /\ IdleScad /\ IdleIDU /\ IdleValue /\ IdleHeap

\* core.py ScadObject.rotated: Rotation(self, angle_deg, axis)
rotated ==
    /\ rotation = NotConstructed
    /\ rotation' = Rotation(root, angle_deg, axis)
    /\ UNCHANGED <<root, angle_deg, axis, name, matches, found, command, lines>>
    /\ UNCHANGED <<iduVars, valueVars, heapVars>>

\* rotation.to_command().to_scad()
RotationToScad ==
    /\ "returned" \in DOMAIN rotation
    /\ command' = to_command(rotation.returned)
    /\ lines' = to_scad(command')
    /\ UNCHANGED <<root, angle_deg, axis, rotation, name, matches, found>>
    /\ UNCHANGED <<iduVars, valueVars, heapVars>>

NextRotation ==
    \/ rotated
    \/ RotationToScad

SpecRotation == InitRotation /\ [][NextRotation]_vars

----------------------------------------------------------------------------
(* SpecHeap: builder objects are made one after the other -- primitives,   *)
(* empty aggregators, decorators around an object made before -- and the   *)
(* aggregators are grown in place with any object made so far, themselves  *)
(* included.  An object holds its children by reference, as a Python list  *)
(* does: a reference is the position of the object in heap.                *)

\* The most builder objects made.
MaxHeap == 3

\* The most children the aggregators hold together.
MaxEdges == 2

Refs == 1..Len(heap)

IsAggregator(o) == o.kind \in {"Hull", "Minkowski", "IDUObject"}

RECURSIVE Sum(_)
Sum(ns) == IF Len(ns) = 0 THEN 0 ELSE Head(ns) + Sum(Tail(ns))

\* The children all aggregators hold together.
Edges ==
    Sum([r \in Refs |-> IF IsAggregator(heap[r]) THEN Len(iter_children(heap[r])) ELSE 0])

\* The object built from the values of its children instead of the
\* references to them.
WithChildren(o, children) ==
    CASE o.kind = "SimpleModule" -> [o EXCEPT !.children = children]
      [] o.kind \in {"NamedWrapper", "CommentedWrapper", "Translation", "Rotation"} ->
            [o EXCEPT !.child = children[1]]
      [] o.kind \in {"Hull", "Minkowski"} -> [o EXCEPT !.objects = children]
      [] o.kind = "IDUObject" ->
            LET p == Len(o.positive_objects)
                n == Len(o.negative_objects)
            IN  [o EXCEPT !.positive_objects = SubSeq(children, 1, p),
                          !.negative_objects = SubSeq(children, p + 1, p + n),
                          !.intersection_objects = SubSeq(children, p + n + 1, Len(children))]

\* The descent of to_command through the references: every to_command calls
\* child.to_command() on each of its children.  `depth` is the number of
\* calls the interpreter still allows below this one; a descent that does
\* not end finishes with RecursionError.
RECURSIVE Dereference(_, _)
Dereference(ref, depth) ==
    IF depth = 0 THEN Raise("RecursionError")
    ELSE LET refs == iter_children(heap[ref])
             children == [i \in 1..Len(refs) |-> Dereference(refs[i], depth - 1)]
         IN  IF \E i \in 1..Len(children) : Raised(children[i])
                 THEN Raise("RecursionError")
                 ELSE Return(WithChildren(heap[ref],
                                          [i \in 1..Len(children) |-> children[i].returned]))

\* heap[ref].to_command().  A descent through objects that are all
\* different is at most Len(heap) calls deep; a deeper one runs around a
\* cycle and is only stopped by the interpreter's recursion limit.
to_command_of(ref) ==
    LET self == Dereference(ref, Len(heap))
    IN  IF Raised(self) THEN self ELSE Return(to_command(self.returned))

InitHeap ==
    /\ heap = <<>>
    /\ frozen = NotFrozen
    /\ IdleIDU /\ IdleScad /\ IdleValue /\ IdleSearch /\ IdleRotation

\* A new object: the result of the last to_command is forgotten.
Allocate(object) ==
    /\ Len(heap) < MaxHeap
    /\ heap' = Append(heap, object)
    /\ frozen' = NotFrozen
    /\ UNCHANGED <<iduVars, scadVars, valueVars, searchVars, rotationVars>>

\* cube(1)
NewCube == Allocate(cube(1, FALSE))

\* Hull()
NewHull == Allocate(Hull(<<>>))

\* Minkowski()
NewMinkowski == Allocate(Minkowski(<<>>))

\* IDUObject()
NewIDUObject == Allocate(IDUObject(<<>>, <<>>, <<>>))

\* scad_object.translated((0, 0, 1)): a new wrapper, the receiver untouched
Decorate(scad_object) == Allocate(translated(scad_object, Vector001))

\* An aggregator appends to one of its lists and returns itself.
Mutate(self, object) ==
    /\ Edges < MaxEdges
    /\ heap' = [heap EXCEPT ![self] = object]
    /\ frozen' = NotFrozen
    /\ UNCHANGED <<iduVars, scadVars, valueVars, searchVars, rotationVars>>

\* operators.py Hull.add
Hull_add(self, scad_object) ==
    /\ heap[self].kind = "Hull"
    /\ Mutate(self, [heap[self] EXCEPT !.objects = Append(@, scad_object)])

\* operators.py Minkowski.add
Minkowski_add(self, scad_object) ==
    /\ heap[self].kind = "Minkowski"
    /\ Mutate(self, [heap[self] EXCEPT !.objects = Append(@, scad_object)])

\* operators.py IDUObject.add_positive
IDUObject_add_positive(self, scad_object) ==
    /\ heap[self].kind = "IDUObject"
    /\ Mutate(self, [heap[self] EXCEPT !.positive_objects = Append(@, scad_object)])

\* operators.py IDUObject.add_negative
IDUObject_add_negative(self, scad_object) ==
    /\ heap[self].kind = "IDUObject"
    /\ Mutate(self, [heap[self] EXCEPT !.negative_objects = Append(@, scad_object)])

\* operators.py IDUObject.intersect
IDUObject_intersect(self, scad_object) ==
    /\ heap[self].kind = "IDUObject"
    /\ Mutate(self, [heap[self] EXCEPT !.intersection_objects = Append(@, scad_object)])

\* heap[self].to_command()
Freeze(self) ==
    /\ frozen' = to_command_of(self)
    /\ heap' = heap
    /\ UNCHANGED <<iduVars, scadVars, valueVars, searchVars, rotationVars>>

NextHeap ==
    \/ NewCube
    \/ NewHull
    \/ NewMinkowski
    \/ NewIDUObject
    \/ \E o \in Refs : Decorate(o)
    \/ \E self \in Refs : \E o \in Refs : Hull_add(self, o)
    \/ \E self \in Refs : \E o \in Refs : Minkowski_add(self, o)
    \/ \E self \in Refs : \E o \in Refs : IDUObject_add_positive(self, o)
    \/ \E self \in Refs : \E o \in Refs : IDUObject_add_negative(self, o)
    \/ \E self \in Refs : \E o \in Refs : IDUObject_intersect(self, o)
    \/ \E self \in Refs : Freeze(self)

SpecHeap == InitHeap /\ [][NextHeap]_vars

----------------------------------------------------------------------------
(* Claims about the IDUObject, checked under Spec.                         *)

\* The objects the calls of one kind were given, in call order.
CallsOf(op) ==
    LET sel == SelectSeq(calls, LAMBDA c : c[1] = op)
    IN  [i \in 1..Len(sel) |-> sel[i][2]]

CommandsOf(objects) == [i \in 1..Len(objects) |-> to_command(objects[i])]

\* C1: after any sequence of add_positive / add_negative / intersect calls,
\* from any constructor lists, to_command is
\* intersection[ difference[ union[P...], N... ], I... ] with P, N, I the
\* commands of the positive, negative and intersection objects, each list
\* in its own insertion order (constructor list, then that list's calls),
\* whatever the order of the calls across the lists and also when a list is
\* empty.
C1_FixedShape ==
    LET P == CommandsOf(constructor_lists[1] \o CallsOf("add_positive"))
        N == CommandsOf(constructor_lists[2] \o CallsOf("add_negative"))
        I == CommandsOf(constructor_lists[3] \o CallsOf("intersect"))
    IN  to_command(Self) =
            [type |-> "Command", name |-> "intersection", arguments |-> <<>>,
             children |->
                <<[type |-> "Command", name |-> "difference", arguments |-> <<>>,
                   children |->
                      <<[type |-> "Command", name |-> "union", arguments |-> <<>>,
                         children |-> P]>> \o N]>> \o I]

\* The calls came in the order intersect, add_negative, add_positive, the
\* last two with different objects.
C1_Witness ==
    /\ Len(calls) = 3
    /\ calls[1][1] = "intersect"
    /\ calls[2][1] = "add_negative"
    /\ calls[3][1] = "add_positive"
    /\ calls[3][2] # calls[2][2]

\* A builder object that is a primitive without children.
Childless(o) == o.kind = "SimpleModule" /\ Len(o.children) = 0

OnePositiveOneNegative ==
    /\ Len(positive_objects) = 1 /\ Childless(positive_objects[1])
    /\ Len(negative_objects) = 1 /\ Childless(negative_objects[1])
    /\ Len(intersection_objects) = 0

LineOf(o) == to_scad(to_command(o)).returned[1]

\* C2 as amended: positives=[A], negatives=[B], no intersection objects, A
\* and B childless primitives, serialize to four lines: the header
\* `difference() {`, A's line and B's line indented by 4 spaces, `}`; for
\* cube(1) and cube(2) the two lines are the cube calls written out.
C2_DifferenceBlock ==
    OnePositiveOneNegative =>
        /\ to_scad(to_command(Self)) =
              Return(<< "difference() {",
                        "    " \o LineOf(positive_objects[1]),
                        "    " \o LineOf(negative_objects[1]),
                        "}" >>)
        /\ (positive_objects[1] = cube(1, FALSE) /\ negative_objects[1] = cube(2, FALSE)) =>
              to_scad(to_command(Self)) =
                  Return(<< "difference() {",
                            "    cube(size=[1, 1, 1], center=false);",
                            "    cube(size=[2, 2, 2], center=false);",
                            "}" >>)

\* cube(2) was subtracted first and cube(1) added afterwards.
C2_Witness ==
    /\ calls = << <<"add_negative", cube(2, FALSE)>>, <<"add_positive", cube(1, FALSE)>> >>
    /\ positive_objects = <<cube(1, FALSE)>>
    /\ negative_objects = <<cube(2, FALSE)>>
    /\ intersection_objects = <<>>

\* C2 as stated: the block header is the text `difference {`.
C2_AsStated ==
    OnePositiveOneNegative =>
        to_scad(to_command(Self)) =
            Return(<< "difference {",
                      "    " \o LineOf(positive_objects[1]),
                      "    " \o LineOf(negative_objects[1]),
                      "}" >>)

----------------------------------------------------------------------------
(* Claims about Command.to_scad on trees, checked under SpecScad.          *)

IsCommand(node) == node.type = "Command"

\* C4: a Command with exactly one child and a name among union,
\* difference, intersection, minkowski, hull serializes to exactly the
\* lines of its only child: no header line, no indentation added, whatever
\* the child tree is.
C4_SingletonCollapses ==
    (/\ IsCommand(command)
     /\ Len(command.children) = 1
     /\ command.name \in {"union", "difference", "intersection", "minkowski", "hull"})
        => lines = to_scad(command.children[1])

\* A hull around one child that is itself a block of two children, so the
\* collapse happens above a nested, multi-line child.
C4_Witness ==
    /\ IsCommand(command)
    /\ command.name = "hull"
    /\ Len(command.children) = 1
    /\ IsCommand(command.children[1])
    /\ Len(command.children[1].children) = 2
    /\ ~Raised(lines)
    /\ Len(lines.returned) = 4

\* The header text of the commands of Modules, written out.
HeaderText(c) ==
    CASE c.name \in {"%", "#", "|", "*"} -> c.name
      [] c.name = "translate" -> "translate(v=[0, 0, 1])"
      [] c.name = "color" -> "color(c=\"green\")"
      [] c.name = "render" ->
            IF c.arguments[1][2] = PyNone THEN "render()" ELSE "render(convexity=10)"
      [] OTHER -> c.name \o "()"

LinesOfChildren(c) == [i \in 1..Len(c.children) |-> to_scad(c.children[i]).returned]

\* The number of lines of the children before child i.
RECURSIVE Offset(_, _)
Offset(K, i) == IF i <= 1 THEN 0 ELSE Offset(K, i - 1) + Len(K[i - 1])

\* C5: a Command with two or more children, whatever its name, serializes
\* to `header {`, then every child's lines in child order each prefixed
\* with exactly 4 spaces, then `}`; the lines of a block nested in it carry
\* 8 spaces.
C5_BraceBlock ==
    (IsCommand(command) /\ Len(command.children) >= 2) =>
        LET K == LinesOfChildren(command)
            L == lines.returned
        IN  /\ ~Raised(lines)
            /\ Len(L) = 2 + Offset(K, Len(K) + 1)
            /\ L[1] = HeaderText(command) \o " {"
            /\ L[Len(L)] = "}"
            /\ \A i \in 1..Len(K) : \A j \in 1..Len(K[i]) :
                  L[1 + Offset(K, i) + j] = "    " \o K[i][j]
            /\ \A i \in 1..Len(K) :
                  (IsCommand(command.children[i]) /\ Len(command.children[i].children) >= 2) =>
                      LET G == LinesOfChildren(command.children[i])
                      IN  \A g \in 1..Len(G) : \A m \in 1..Len(G[g]) :
                              L[1 + Offset(K, i) + 1 + Offset(G, g) + m]
                                  = "        " \o G[g][m]

\* A marker with three children, the first of them a block of two: lines at
\* brace depth 1 and 2.
C5_Witness ==
    /\ IsCommand(command)
    /\ command.name = "%"
    /\ Len(command.children) = 3
    /\ IsCommand(command.children[3])
    /\ Len(command.children[3].children) = 2
    /\ ~Raised(lines)
    /\ lines.returned[1] = "% {"
    /\ lines.returned[2] = "    hull() {"
    /\ lines.returned[3] = "        cube(size=[1, 1, 1], center=false);"

----------------------------------------------------------------------------
(* Claims about commands without children and about format_value, checked *)
(* under SpecValue.                                                        *)

\* The types format_value has a branch for.
Formattable(v) == v.t \in {"bool", "int", "str", "list", "tuple"}

\* A Value of the serializer: a boolean, a number, a string, or a sequence
\* whose elements are all Values.
RECURSIVE IsValue(_)
IsValue(v) ==
    IF v.t \in {"list", "tuple"} THEN \A i \in 1..Len(v.v) : IsValue(v.v[i])
    ELSE v.t \in {"bool", "int", "str"}

\* The value is an argument of the command and is not None (a None
\* argument is left out of the header).
ValueIsFormatted == Len(command.arguments) >= 1 /\ value # PyNone

\* The text between the parentheses of the header, from format_value's text
\* of the value.
ArgumentsText ==
    CASE Len(command.arguments) = 0 -> ""
      [] Len(command.arguments) = 1 ->
            IF value = PyNone THEN "" ELSE "v=" \o text.returned
      [] Len(command.arguments) = 2 ->
            IF value = PyNone THEN "n=2" ELSE "v=" \o text.returned \o ", n=2"

\* C3 as amended: a Command with zero children and a name in {union,
\* difference, intersection, minkowski, hull, %, #, |, *, render} serializes
\* to the empty sequence -- for the four markers whatever its arguments,
\* for the other six whenever every argument that is not None is of a type
\* format_value accepts; a zero-child Command with any other name
\* serializes to the one line `header;` under the same condition; and when
\* the name is not a marker and an argument is of a type format_value
\* rejects, to_scad raises ValueError (the header is formatted before the
\* children are counted).
C3_ZeroChildren ==
    Len(command.children) = 0 =>
        IF command.name \in {"%", "#", "|", "*"} THEN lines = Return(<<>>)
        ELSE IF ValueIsFormatted /\ ~Formattable(value) THEN lines = Raise("ValueError")
        ELSE IF command.name \in {"union", "difference", "intersection", "minkowski",
                                  "hull", "render"}
            THEN lines = Return(<<>>)
        ELSE lines = Return(<<command.name \o "(" \o ArgumentsText \o ");">>)

\* render without children and with two arguments, one a tuple of tuples,
\* serializes to nothing.
C3_Witness ==
    /\ command.name = "render"
    /\ Len(command.children) = 0
    /\ Len(command.arguments) = 2
    /\ value.t = "tuple"
    /\ Nesting(value) = 2
    /\ lines = Return(<<>>)

\* C3 as stated, its first sentence: with zero children, a name of the
\* no-op set gives the empty sequence whatever the arguments.
C3_AsStated ==
    (/\ Len(command.children) = 0
     /\ command.name \in {"union", "difference", "intersection", "minkowski", "hull",
                          "%", "#", "|", "*", "render"})
        => lines = Return(<<>>)

\* The formatter of the claim: the same formatter applied to every element.
RECURSIVE RecursiveFormat(_)
RecursiveFormat(v) ==
    CASE v.t = "bool" -> IF v.v THEN "true" ELSE "false"
      [] v.t = "int" -> ToString(v.v)
      [] v.t = "str" -> "\"" \o v.v \o "\""
      [] v.t \in {"list", "tuple"} ->
            "[" \o Join(", ", [i \in 1..Len(v.v) |-> RecursiveFormat(v.v[i])]) \o "]"

\* C6: format_value formats a sequence of Values as `[`, the comma-joined
\* results of the same formatter applied to each element, `]`: a boolean
\* element as true/false, a string element double-quoted, a nested
\* sequence as a bracketed list, at every depth.
C6_RecursiveFormat ==
    (value.t \in {"list", "tuple"} /\ IsValue(value)) =>
        text = Return(RecursiveFormat(value))

\* C7: serializing a Command with an argument outside the Value union --
\* also one that sits as an element inside a sequence argument -- raises
\* the unsupported-type error and produces no text.  (Stated for the names
\* whose header shows the arguments; a marker's header is its bare name.)
C7_UnsupportedRaises ==
    (/\ command.name \notin {"%", "#", "|", "*"}
     /\ ValueIsFormatted
     /\ ~IsValue(value))
        => lines = Raise("ValueError")

----------------------------------------------------------------------------
(* Claims about name lookup, checked under SpecSearch.                     *)

\* The paths of all objects of a tree, the tree itself included.
RECURSIVE PathsOf(_, _)
PathsOf(o, path) ==
    {path} \cup UNION {PathsOf(iter_children(o)[i], Append(path, i)) :
                        i \in 1..Len(iter_children(o))}

RECURSIVE NodeAt(_, _)
NodeAt(o, path) ==
    IF Len(path) = 0 THEN o ELSE NodeAt(iter_children(o)[Head(path)], Tail(path))

IsNamed(o, n) == o.kind = "NamedWrapper" /\ o.object_name = PyStr(n)
Hides(o, n) == o.kind = "NamedWrapper" /\ PyStr(n) \in o.hidden_names

StrictPrefixes(p) == {SubSeq(p, 1, k) : k \in 0..(Len(p) - 1)}
Prefixes(p) == StrictPrefixes(p) \cup {p}

\* The objects registered with the name n anywhere in the tree.
Registered(n) == {p \in PathsOf(root, <<>>) : IsNamed(NodeAt(root, p), n)}

\* Those of them that no object above them cuts off: no NamedWrapper on the
\* way down to them is itself named n or has n among its hidden names.
Visible(n) ==
    {p \in Registered(n) :
        \A q \in StrictPrefixes(p) :
            ~IsNamed(NodeAt(root, q), n) /\ ~Hides(NodeAt(root, q), n)}

SingleNameLookedUp == found # NoLookup /\ Len(name) = 1

\* C8 as amended: the lookup of a single name N is decided by how many
\* NamedWrappers named N are visible from the object -- reachable through
\* iter_children without passing through a NamedWrapper that is itself
\* named N or that has N among its hidden names: exactly one -> that
\* wrapper is returned; none -> the not-found KeyError; two or more -> the
\* multiple-descendants KeyError.  Of two wrappers named N nested one
\* inside the other only the outer one is visible.
C8_LookupByVisibleMatches ==
    SingleNameLookedUp =>
        LET vis == Visible(name[1])
        IN  /\ Cardinality(vis) = 1 => found = Return(CHOOSE p \in vis : TRUE)
            /\ Cardinality(vis) = 0 => found = NotFound
            /\ Cardinality(vis) >= 2 => found = AmbiguousMatch

\* Two wrappers named A, one inside the other, and the lookup of A returned
\* the outer one.
C8_Witness ==
    /\ SingleNameLookedUp
    /\ name = <<"A">>
    /\ Cardinality(Registered("A")) = 2
    /\ \E p \in Registered("A") : \E q \in Registered("A") : q \in StrictPrefixes(p)
    /\ "returned" \in DOMAIN found
    /\ found.returned \in Registered("A")

\* C8 as stated: the lookup is decided by how many objects are registered
\* with the name, wherever they sit.
C8_AsStated ==
    SingleNameLookedUp =>
        LET reg == Registered(name[1])
        IN  /\ Cardinality(reg) = 1 => found = Return(CHOOSE p \in reg : TRUE)
            /\ Cardinality(reg) = 0 => found = NotFound
            /\ Cardinality(reg) >= 2 => found = AmbiguousMatch

\* C9: if a NamedWrapper W has B among its hidden names and contains a
\* descendant D named B, no search that passes through W returns D or an
\* object below D, whatever the path searched for.
C9_HiddenPruned ==
    found # NoLookup =>
        \A k \in 1..Len(matches) :
            ~ \E d \in Prefixes(matches[k]) : \E w \in StrictPrefixes(d) : \E b \in Names :
                  Hides(NodeAt(root, w), b) /\ IsNamed(NodeAt(root, d), b)

----------------------------------------------------------------------------
(* The claim about rotations, checked under SpecRotation.                  *)

\* C10: constructing a rotation fails exactly when the angle is a vector of
\* Euler angles and an axis is given as well; with a vector and no axis, a
\* scalar and an axis, or a scalar and no axis it succeeds and to_command
\* is Command('rotate') with a = the angle and v = the axis (None when no
\* axis was given) around the command of the rotated object.
C10_RotationConstructs ==
    rotation # NotConstructed =>
        IF angle_deg.t = "tuple" /\ axis # PyNone
            THEN Raised(rotation)
            ELSE /\ ~Raised(rotation)
                 /\ to_command(rotation.returned) =
                        [type |-> "Command", name |-> "rotate",
                         arguments |-> << <<"a", angle_deg>>, <<"v", axis>> >>,
                         children |-> <<to_command(root)>>]

----------------------------------------------------------------------------
(* The claim about the graph of builder objects, checked under SpecHeap.   *)

\* The objects reached from the objects of `from` in at most n steps
\* through iter_children.
RECURSIVE ReachedIn(_, _)
ReachedIn(from, n) ==
    IF n = 0 THEN from
    ELSE LET near == ReachedIn(from, n - 1)
         IN  near \cup UNION {{iter_children(heap[r])[i] : i \in 1..Len(iter_children(heap[r]))} :
                              r \in near}

\* The objects below an object: its children and theirs, and so on.
Below(ref) ==
    ReachedIn({iter_children(heap[ref])[i] : i \in 1..Len(iter_children(heap[ref]))},
              Len(heap))

\* How many times the object is a child: over all parents, a parent that
\* holds it twice counted twice.
TimesChild(ref) ==
    Sum([r \in Refs |-> Len(SelectSeq(iter_children(heap[r]), LAMBDA c : c = ref))])

NoCycles == \A ref \in Refs : ref \notin Below(ref)

NoSharing == \A ref \in Refs : TimesChild(ref) <= 1

\* C11: after any sequence of constructions, decorator calls and
\* aggregator mutations (Minkowski.add, Hull.add, add_positive,
\* add_negative, intersect, with any existing object as the argument) the
\* builder graph is a tree: no object is reachable from itself through
\* iter_children, no object is a child of two parents or twice of the same
\* parent, and to_command returns.
C11_BuilderGraphIsTree ==
    /\ NoCycles
    /\ NoSharing
    /\ frozen # NotFrozen => ~Raised(frozen)

----------------------------------------------------------------------------
(* The claim about headers without a body, checked under SpecScad.         *)

\* The nodes of a tree, the root included.
RECURSIVE NodesOf(_)
NodesOf(node) ==
    {node} \cup
        IF node.type = "Commented" THEN NodesOf(node.child)
        ELSE UNION {NodesOf(node.children[i]) : i \in 1..Len(node.children)}

\* A command with exactly one child whose name is not one of the five that
\* collapse: the command that writes its header bare, on a line of its own.
WritesBareHeader(node) ==
    /\ IsCommand(node)
    /\ Len(node.children) = 1
    /\ node.name \notin {"union", "difference", "intersection", "minkowski", "hull"}

\* C12: in the output of to_scad for any Command tree, the bare header
\* line of every single-child command with a non-collapsing name
\* (translate, color, render, a % # | * marker) is immediately followed by
\* at least one line of that command's own child, also when the child is
\* an empty or all-empty union / hull / minkowski.
C12_HeaderHasBody ==
    \A node \in NodesOf(command) :
        WritesBareHeader(node) =>
            LET own == to_scad(node).returned
                body == to_scad(node.children[1]).returned
            IN  /\ Len(body) >= 1
                /\ own = <<HeaderText(node)>> \o body

----------------------------------------------------------------------------
(* The claim about negative objects without a positive one, checked under  *)
(* Spec.                                                                   *)

\* The lines the positive list serializes to: those of the union command.
PositiveLines == to_scad(Command("union", <<>>, CommandsOf(positive_objects))).returned

\* The lines of the negative objects, in order.
NegativeLines ==
    Flatten([i \in 1..Len(negative_objects) |->
                to_scad(to_command(negative_objects[i])).returned])

\* The serialized text of the IDUObject, and the line its difference block
\* opens at: the first, or the second below `intersection() {` when there
\* are intersection objects.
SerializedText == to_scad(to_command(Self)).returned
DifferenceAt == IF Len(intersection_objects) = 0 THEN 1 ELSE 2
Margin == IF Len(intersection_objects) = 0 THEN "" ELSE "    "

\* C13: for every IDUObject reached by add_positive / add_negative /
\* intersect calls (stated for those at least one call was made on), when
\* the serialized text contains the lines of a negative object, they stand
\* in a `difference` block and are preceded in it by a line of the positive
\* list: the first statement of the block is the first line the positives
\* serialize to, never a negative object's line -- also with an empty
\* positive list.
C13_NegativesFollowPositive ==
    (Len(calls) >= 1 /\ Len(NegativeLines) >= 1) =>
        /\ Len(SerializedText) >= DifferenceAt + 2
        /\ SerializedText[DifferenceAt] = Margin \o "difference() {"
        /\ Len(PositiveLines) >= 1
        /\ SerializedText[DifferenceAt + 1] = Margin \o "    " \o PositiveLines[1]

====
